---- MODULE Spec2Model ----
(***************************************************************************)
(* Generador de actas de descargo (AGP RRHH).                              *)
(*                                                                         *)
(* main.py: leer_texto_pdf, extraer_articulos_completos,                   *)
(* extraer_datos_citacion, preguntas_base_por_tipo,                        *)
(* generar_preguntas_gemini, generar_acta, main.                           *)
(* app.py: the Streamlit script, one action per rerun.                     *)
(*                                                                         *)
(* Strings are TLA+ strings, which TLC treats as sequences of characters   *)
(* (Len, SubSeq, \o).  The regular expressions of the source are written   *)
(* as syntax trees and matched the way Python's re matches them:           *)
(* leftmost start, alternatives and repetitions tried in priority order.   *)
(***************************************************************************)
EXTENDS Integers, Sequences, FiniteSets, TLC

(***************************************************************************)
(* Characters and str methods                                              *)
(***************************************************************************)
Ch(s, i) == SubSeq(s, i, i)
CharsOf(s) == {Ch(s, i) : i \in 1..Len(s)}
\* (f \o <<>> makes TLC build the tuple once instead of keeping the rule)
ToChars(s) == [i \in 1..Len(s) |-> Ch(s, i)] \o <<>>

\* "".join(cs), by halves
RECURSIVE JoinRange(_, _, _)
JoinRange(cs, a, b) ==
    IF a > b THEN ""
    ELSE IF a = b THEN cs[a]
    ELSE LET mid == (a + b) \div 2
         IN  JoinRange(cs, a, mid) \o JoinRange(cs, mid + 1, b)
Join(cs) == JoinRange(cs, 1, Len(cs))

\* F applied to v, with v evaluated once and before F
Let(v, F(_)) == CHOOSE r \in {F(x) : x \in {v}} : TRUE

MinOf(S) == CHOOSE x \in S : \A y \in S : x <= y
MaxOf(S) == CHOOSE x \in S : \A y \in S : x >= y

UpperChars == "ABCDEFGHIJKLMNOPQRSTUVWXYZÁÉÍÓÚÑ"
LowerChars == "abcdefghijklmnopqrstuvwxyzáéíóúñ"
UpperSet == CharsOf(UpperChars)
LowerSet == CharsOf(LowerChars)
LowerMap == [c \in UpperSet |->
               Ch(LowerChars, CHOOSE i \in 1..Len(UpperChars) : Ch(UpperChars, i) = c)]
UpperMap == [c \in LowerSet |->
               Ch(UpperChars, CHOOSE i \in 1..Len(LowerChars) : Ch(LowerChars, i) = c)]
ToLower(c) == IF c \in UpperSet THEN LowerMap[c] ELSE c
ToUpper(c) == IF c \in LowerSet THEN UpperMap[c] ELSE c
IsLetter(c) == c \in UpperSet \/ c \in LowerSet

\* \s, and the characters str.strip() removes
WS == {" ", "\t", "\n", "\r", "\f"}
Digits == CharsOf("0123456789")
AZ == CharsOf("ABCDEFGHIJKLMNOPQRSTUVWXYZ")
az == CharsOf("abcdefghijklmnopqrstuvwxyz")

\* str.lower()
Lower(s) == Join([i \in 1..Len(s) |-> ToLower(Ch(s, i))])

\* str.title(): a letter after a letter is lowered, any other letter is raised
Title(s) ==
    Join([i \in 1..Len(s) |->
            IF ~IsLetter(Ch(s, i)) THEN Ch(s, i)
            ELSE IF i > 1 /\ IsLetter(Ch(s, i - 1)) THEN ToLower(Ch(s, i))
            ELSE ToUpper(Ch(s, i))])

\* str.strip()
Strip(s) ==
    LET keep == {i \in 1..Len(s) : Ch(s, i) \notin WS}
    IN  IF keep = {} THEN "" ELSE SubSeq(s, MinOf(keep), MaxOf(keep))

\* str.replace(a, b) for a one-character a
Replace(s, a, b) ==
    IF a \notin CharsOf(s) THEN s
    ELSE Join([i \in 1..Len(s) |-> IF Ch(s, i) = a THEN b ELSE Ch(s, i)])

\* needle in hay
Contains(hay, needle) ==
    \E i \in 1..(Len(hay) - Len(needle) + 1) : SubSeq(hay, i, i + Len(needle) - 1) = needle

\* str.endswith
EndsWith(s, suf) == Len(s) >= Len(suf) /\ SubSeq(s, Len(s) - Len(suf) + 1, Len(s)) = suf

\* s[a:b] with 0-based a, b as Python slices (empty when b <= a)
Slice(s, a, b) == SubSeq(s, a + 1, b)

(***************************************************************************)
(* Regular expressions: syntax trees                                       *)
(***************************************************************************)
Lit(s) == [k |-> "lit", s |-> ToChars(s)]
\* a character class repeated lo..hi times (hi = -1: unbounded)
Rep(set, lo, hi, lazy) ==
    [k |-> "rep", cs |-> set, neg |-> FALSE, lo |-> lo, hi |-> hi, lazy |-> lazy]
RepNot(set, lo, hi, lazy) ==
    [k |-> "rep", cs |-> set, neg |-> TRUE, lo |-> lo, hi |-> hi, lazy |-> lazy]
One(set) == Rep(set, 1, 1, FALSE)
Star(set) == Rep(set, 0, -1, FALSE)
Plus(set) == Rep(set, 1, -1, FALSE)
PlusLazy(set) == Rep(set, 1, -1, TRUE)
\* the concatenation of rs, as a balanced tree of pairs (concatenation is
\* associative; the tree keeps the evaluation of a long pattern shallow)
RECURSIVE CatRange(_, _, _)
CatRange(rs, a, b) ==
    IF a > b THEN [k |-> "cat", rs |-> <<>>]
    ELSE IF a = b THEN rs[a]
    ELSE [k |-> "cat", rs |-> <<CatRange(rs, a, (a + b) \div 2),
                                CatRange(rs, (a + b) \div 2 + 1, b)>>]
Cat(rs) == CatRange(rs, 1, Len(rs))
Alt(rs) == [k |-> "alt", rs |-> rs]
Empty == Cat(<<>>)
Opt(r) == Alt(<<r, Empty>>)
Eos == [k |-> "eos"]
Bos == [k |-> "bos"]

\* the characters a match of r can start with, when r starts with a literal
\* or a class that is not optional ({} otherwise: any character)
RECURSIVE LeadChar(_)
LeadChar(r) ==
    IF r.k = "lit" /\ Len(r.s) > 0 THEN {r.s[1]}
    ELSE IF r.k = "rep" /\ ~r.neg /\ r.lo > 0 THEN r.cs
    ELSE IF r.k = "cat" /\ Len(r.rs) > 0 THEN LeadChar(r.rs[1])
    ELSE {}

\* a pattern with one capture group: what precedes it, the group, what
\* follows; ic is re.IGNORECASE
Pat(pre, grp, post) ==
    [pre |-> pre, grp |-> grp, post |-> post, ic |-> FALSE,
     lead |-> IF pre = Empty THEN LeadChar(grp) ELSE LeadChar(pre)]
\* a pattern whose group is the whole match
Whole(r) == Pat(Empty, r, Empty)

\* re.IGNORECASE: the pattern is lowered here, the subject in Search
RECURSIVE LowerRe(_)
LowerRe(r) ==
    CASE r.k = "lit" -> [r EXCEPT !.s = [i \in 1..Len(r.s) |-> ToLower(r.s[i])] \o <<>>]
      [] r.k = "rep" -> [r EXCEPT !.cs = {ToLower(c) : c \in r.cs}]
      [] r.k \in {"cat", "alt"} ->
            [r EXCEPT !.rs = [i \in 1..Len(r.rs) |-> LowerRe(r.rs[i])] \o <<>>]
      [] OTHER -> r
IgnoreCase(p) ==
    [pre |-> LowerRe(p.pre), grp |-> LowerRe(p.grp), post |-> LowerRe(p.post),
     ic |-> TRUE, lead |-> {ToLower(c) : c \in p.lead}]

(***************************************************************************)
(* Regular expressions: matching                                           *)
(***************************************************************************)
InClass(c, r) == IF r.neg THEN c \notin r.cs ELSE c \in r.cs

LitAt(l, cs, i) ==
    /\ i + Len(l) - 1 <= Len(cs)
    /\ \A j \in 1..Len(l) : cs[i + j - 1] = l[j]

\* the number of characters of the class from position i on, at most r.hi
Run(r, cs, i) ==
    LET left == Len(cs) - i + 1
        most == IF r.hi < 0 \/ left < r.hi THEN left ELSE r.hi
    IN  IF r.neg /\ r.cs = {} THEN most
        ELSE CHOOSE n \in 0..most :
                /\ n = most \/ ~InClass(cs[i + n], r)
                /\ \A m \in 0..(n - 1) : InClass(cs[i + m], r)

\* Ends(r, cs, i): the positions at which a match of r starting at i can
\* end, in the order a backtracking matcher tries them.
RECURSIVE Ends(_, _, _), CatEnds(_, _, _, _), CatOver(_, _, _, _, _, _), AltEnds(_, _, _, _)
Ends(r, cs, i) ==
    CASE r.k = "lit" -> IF LitAt(r.s, cs, i) THEN <<i + Len(r.s)>> ELSE <<>>
      [] r.k = "rep" ->
            Let(Run(r, cs, i), LAMBDA n :
                IF n < r.lo THEN <<>>
                ELSE IF r.lazy THEN [j \in 1..(n - r.lo + 1) |-> i + r.lo + j - 1] \o <<>>
                ELSE [j \in 1..(n - r.lo + 1) |-> i + n - j + 1] \o <<>>)
      [] r.k = "cat" -> CatEnds(r.rs, 1, cs, i)
      [] r.k = "alt" -> AltEnds(r.rs, 1, cs, i)
      [] r.k = "eos" -> IF i = Len(cs) + 1 \/ (i = Len(cs) /\ cs[i] = "\n")
                        THEN <<i>> ELSE <<>>
      [] r.k = "bos" -> IF i = 1 THEN <<i>> ELSE <<>>
CatEnds(rs, k, cs, i) ==
    IF k > Len(rs) THEN <<i>>
    ELSE Let(Ends(rs[k], cs, i), LAMBDA es : CatOver(rs, k, cs, es, 1, Len(es)))
\* the continuations of es[a..b], in order (by halves)
CatOver(rs, k, cs, es, a, b) ==
    IF a > b THEN <<>>
    ELSE IF a = b THEN CatEnds(rs, k + 1, cs, es[a])
    ELSE CatOver(rs, k, cs, es, a, (a + b) \div 2)
         \o CatOver(rs, k, cs, es, (a + b) \div 2 + 1, b)
AltEnds(rs, k, cs, i) ==
    IF k > Len(rs) THEN <<>> ELSE Ends(rs[k], cs, i) \o AltEnds(rs, k + 1, cs, i)

\* a match object: s, e the span of the match, gs, ge the span of group 1
\* (positions 1-based, the end exclusive)
NoMatch == [ok |-> FALSE, s |-> 0, gs |-> 0, ge |-> 0, e |-> 0]

\* the end of the group's first match from e1 that the rest of the pattern
\* accepts, as <<ge, e>>, or <<>>
GroupAt(p, cs, e1) ==
    Let(Ends(p.grp, cs, e1), LAMBDA E2 :
    Let({b \in 1..Len(E2) : Ends(p.post, cs, E2[b]) # <<>>}, LAMBDA ok :
        IF ok = {} THEN <<>>
        ELSE Let(E2[MinOf(ok)], LAMBDA ge : <<ge, Ends(p.post, cs, ge)[1]>>)))

\* re.match at position i
MatchAt(p, cs, i) ==
    Let(Ends(p.pre, cs, i), LAMBDA E1 :
    Let([a \in 1..Len(E1) |-> GroupAt(p, cs, E1[a])] \o <<>>, LAMBDA G :
    Let({a \in 1..Len(E1) : G[a] # <<>>}, LAMBDA okA :
        IF okA = {} THEN NoMatch
        ELSE Let(MinOf(okA), LAMBDA a :
                 [ok |-> TRUE, s |-> i, gs |-> E1[a], ge |-> G[a][1], e |-> G[a][2]]))))

\* the leftmost match starting at i or later
RECURSIVE FirstMatch(_, _, _, _)
FirstMatch(p, cs, a, b) ==
    IF a > b THEN NoMatch
    ELSE IF a = b
    THEN IF p.lead = {} \/ (a <= Len(cs) /\ cs[a] \in p.lead) THEN MatchAt(p, cs, a)
         ELSE NoMatch
    ELSE Let(FirstMatch(p, cs, a, (a + b) \div 2), LAMBDA m :
             IF m.ok THEN m ELSE FirstMatch(p, cs, (a + b) \div 2 + 1, b))
SearchFrom(p, cs, i) == FirstMatch(p, cs, i, Len(cs) + 1)

\* a string to match against: its characters, and its characters lowered
Subject(s) ==
    Let(ToChars(s), LAMBDA cs :
        [s |-> s, cs |-> cs, low |-> [i \in 1..Len(cs) |-> ToLower(cs[i])] \o <<>>])
\* the characters a pattern is matched against
Against(p, sub) == IF p.ic THEN sub.low ELSE sub.cs

\* re.search(p, s)
Search(p, sub) == SearchFrom(p, Against(p, sub), 1)
\* m.group(1)
Group1(m, sub) == SubSeq(sub.s, m.gs, m.ge - 1)

\* the matches of p in cs that start in a..b and not before desde, from left
\* to right and without overlap, and the position the scan goes on from
\* (by halves; none of the patterns used matches the empty string)
RECURSIVE Scan(_, _, _, _, _)
Scan(p, cs, a, b, desde) ==
    IF a > b \/ b < desde THEN [ms |-> <<>>, pos |-> desde]
    ELSE IF a = b
    THEN Let(FirstMatch(p, cs, a, a), LAMBDA m :
             IF m.ok /\ m.e > m.s THEN [ms |-> <<m>>, pos |-> m.e]
             ELSE [ms |-> <<>>, pos |-> desde])
    ELSE Let(Scan(p, cs, a, (a + b) \div 2, desde), LAMBDA l :
         Let(Scan(p, cs, (a + b) \div 2 + 1, b, l.pos), LAMBDA r :
             [ms |-> l.ms \o r.ms, pos |-> r.pos]))
Matches(p, sub) == Scan(p, Against(p, sub), 1, Len(sub.s), 1).ms

\* the text between the matches k - 1 and k (the ends of the string for the
\* first and after the last)
Between(sub, ms, k) ==
    SubSeq(sub.s, IF k = 1 THEN 1 ELSE ms[k - 1].e,
                  IF k > Len(ms) THEN Len(sub.s) ELSE ms[k].s - 1)
Matched(sub, m) == SubSeq(sub.s, m.s, m.e - 1)

\* re.sub(p, repl, s): every match is replaced by ins, followed by the match
\* itself when keep
Sub(p, ins, keep, s) ==
    Let(Subject(s), LAMBDA sub :
    Let(Matches(p, sub), LAMBDA ms :
        Join([k \in 1..(Len(ms) + 1) |->
                 IF k > Len(ms) THEN Between(sub, ms, k)
                 ELSE Between(sub, ms, k) \o ins
                      \o (IF keep THEN Matched(sub, ms[k]) ELSE "")] \o <<>>)))

\* re.split(p, s)
Split(p, s) ==
    Let(Subject(s), LAMBDA sub :
    Let(Matches(p, sub), LAMBDA ms :
        [k \in 1..(Len(ms) + 1) |-> Between(sub, ms, k)] \o <<>>))

\* re.findall(p, s)
FindAll(p, s) ==
    Let(Subject(s), LAMBDA sub :
    Let(Matches(p, sub), LAMBDA ms :
        [k \in 1..Len(ms) |-> Matched(sub, ms[k])] \o <<>>))

(***************************************************************************)
(* The patterns of main.py                                                 *)
(***************************************************************************)
NameClass == AZ \cup CharsOf("ÁÉÍÓÚÑ") \cup WS
Dia == Cat(<<Lit("d"), One({"i", "í"}), Lit("a")>>)
SenorA == Cat(<<Lit("Señor"), Star(WS), Lit("(a)"), Star(WS), Opt(One({":", "-"})), Star(WS)>>)
CometidosElDia == Cat(<<Lit("Cometidos"), Plus(WS), Lit("el"), Plus(WS), Dia>>)

\* Señor\s*\(a\)\s*[:\-]?\s*([A-ZÁÉÍÓÚÑ\s]+)
PatNombre == Pat(SenorA, Plus(NameClass), Empty)

\* Señor\s*\(a\)\s*[:\-]?\s*[A-ZÁÉÍÓÚÑ\s]+\s+([0-9]{5,15})
PatCedula ==
    IgnoreCase(Pat(Cat(<<SenorA, Plus(NameClass), Plus(WS)>>), Rep(Digits, 5, 15, FALSE), Empty))

\* el\s+d[ií]a\s+(\d{1,2}\s+de\s+[a-zA-Zñ]+\s+(?:de\s+)?\d{4}\s+a\s+las\s+[0-9:.]+\s*(?:a\.?m\.?|p\.?m\.?)?)
AmPm(x) == Cat(<<Lit(x), Opt(Lit(".")), Lit("m"), Opt(Lit("."))>>)
PatFechaCitacion ==
    IgnoreCase(Pat(Cat(<<Lit("el"), Plus(WS), Dia, Plus(WS)>>),
        Cat(<<Rep(Digits, 1, 2, FALSE), Plus(WS), Lit("de"), Plus(WS),
              Plus(az \cup AZ \cup {"ñ"}), Plus(WS),
              Opt(Cat(<<Lit("de"), Plus(WS)>>)),
              Rep(Digits, 4, 4, FALSE), Plus(WS), Lit("a"), Plus(WS), Lit("las"), Plus(WS),
              Plus(Digits \cup {":", "."}), Star(WS),
              Opt(Alt(<<AmPm("a"), AmPm("p")>>))>>),
        Empty))

\* Cometidos\s+el\s+d[ií]a[:\s]+([0-9\-\/]+)
PatFechaHecho ==
    IgnoreCase(Pat(Cat(<<CometidosElDia, Plus({":"} \cup WS)>>), Plus(Digits \cup {"-", "/"}), Empty))

\* compañ[ií]a[:\-]?\s*(.+?)Cometidos\s+el\s+d[ií]a   (re.DOTALL)
PatDetalle ==
    IgnoreCase(Pat(Cat(<<Lit("compañ"), One({"i", "í"}), Lit("a"), Opt(One({":", "-"})), Star(WS)>>),
        RepNot({}, 1, -1, TRUE),
        CometidosElDia))

\* Tipo\s+de\s+Falta[:\-]?\s*([A-Za-zÁÉÍÓÚÑ\s]+?)(?:\.|,|las\s+conductas|según|$)
PatTipoFalta ==
    IgnoreCase(Pat(Cat(<<Lit("Tipo"), Plus(WS), Lit("de"), Plus(WS), Lit("Falta"),
              Opt(One({":", "-"})), Star(WS)>>),
        PlusLazy(AZ \cup az \cup CharsOf("ÁÉÍÓÚÑ") \cup WS),
        Alt(<<Lit("."), Lit(","), Cat(<<Lit("las"), Plus(WS), Lit("conductas")>>),
              Lit("según"), Eos>>)))

\* Las\s+conductas\s+que\s+se\s+le\s+imputan\s+se\s+han\s+calificado\s+
\* provisionalmente\s+como\s+Falta\s+Grave[\s\S]*?empresa[:]*
PatInicio ==
    IgnoreCase(Whole(Cat(<<Lit("Las"), Plus(WS), Lit("conductas"), Plus(WS), Lit("que"), Plus(WS),
                Lit("se"), Plus(WS), Lit("le"), Plus(WS), Lit("imputan"), Plus(WS),
                Lit("se"), Plus(WS), Lit("han"), Plus(WS), Lit("calificado"), Plus(WS),
                Lit("provisionalmente"), Plus(WS), Lit("como"), Plus(WS),
                Lit("Falta"), Plus(WS), Lit("Grave"),
                RepNot({}, 0, -1, TRUE), Lit("empresa"), Star({":"})>>)))

\* Se\s+le\s+informa\s+al\s+trabajador\s+sobre\s+la\s+oportunidad\s+de\s+presentar
PatFin ==
    IgnoreCase(Whole(Cat(<<Lit("Se"), Plus(WS), Lit("le"), Plus(WS), Lit("informa"), Plus(WS),
                Lit("al"), Plus(WS), Lit("trabajador"), Plus(WS), Lit("sobre"), Plus(WS),
                Lit("la"), Plus(WS), Lit("oportunidad"), Plus(WS), Lit("de"), Plus(WS),
                Lit("presentar")>>)))

\* \s{2,}
PatEspacios == Whole(Rep(WS, 2, -1, FALSE))
\* (Artículo\s+\d+)
PatArticulo ==
    IgnoreCase(Whole(Cat(<<Lit("Artículo"), Plus(WS), Plus(Digits)>>)))
\* \s+
PatBlancos == Whole(Plus(WS))

(***************************************************************************)
(* Sentinels                                                               *)
(***************************************************************************)
NoNombre == "No encontrado"
NoEncontrada == "No encontrada"
NoDetalle == "No se encontró detalle"
NoArticulos == "No se encontraron los artículos en la citación."
NoArticulosValidos == "No se encontraron artículos válidos."

(***************************************************************************)
(* extraer_articulos_completos, extraer_datos_citacion                     *)
(***************************************************************************)
Normalizar(txt) == Strip(Replace(Replace(txt, "\r", " "), "\n", " "))

LimpiarArticulos(bloque) ==
    Strip(Sub(PatArticulo, "\n", TRUE, Sub(PatEspacios, " ", FALSE, Strip(bloque))))

extraer_articulos_completos(txt) ==
    Let(Subject(Normalizar(txt)), LAMBDA t :
    Let(Search(PatInicio, t), LAMBDA inicio_patron :
    Let(Search(PatFin, t), LAMBDA fin_patron :
        IF ~inicio_patron.ok \/ ~fin_patron.ok THEN NoArticulos
        ELSE Let(LimpiarArticulos(Slice(t.s, inicio_patron.e - 1, fin_patron.s - 1)),
                 LAMBDA articulos_texto :
                     IF Len(articulos_texto) > 20 THEN articulos_texto
                     ELSE NoArticulosValidos))))

\* m.group(1).strip() if m else centinela, with .title() for the name and
\* the type of offence
CampoVacio(p, t, titulo, centinela) ==
    Let(Search(p, t), LAMBDA m :
        IF ~m.ok THEN ""
        ELSE IF titulo THEN Title(Strip(Group1(m, t))) ELSE Strip(Group1(m, t)))
CampoTitulo(p, t, titulo, centinela) ==
    Let(Search(p, t), LAMBDA m : IF m.ok THEN Title(Strip(Group1(m, t))) ELSE centinela)
Campo(p, t, titulo, centinela) ==
    Let(Search(p, t), LAMBDA m :
        IF ~m.ok THEN centinela
        ELSE IF titulo THEN Title(Strip(Group1(m, t))) ELSE Strip(Group1(m, t)))

extraer_datos_citacion(txt) ==
    Let(Subject(Normalizar(txt)), LAMBDA t :
        [nombre         |-> Campo(PatNombre, t, TRUE, NoNombre),
         cedula         |-> Campo(PatCedula, t, FALSE, NoEncontrada),
         fecha_citacion |-> Campo(PatFechaCitacion, t, FALSE, NoEncontrada),
         fecha_hecho    |-> Campo(PatFechaHecho, t, FALSE, NoEncontrada),
         detalle        |-> Campo(PatDetalle, t, FALSE, NoDetalle),
         tipo_falta     |-> Campo(PatTipoFalta, t, TRUE, NoEncontrada),
         articulos      |-> extraer_articulos_completos(txt)])

(***************************************************************************)
(* preguntas_base_por_tipo                                                 *)
(* (the quotation marks U+201C, U+201D of line 171 are written « »)        *)
(***************************************************************************)
PreguntasProcedimiento ==
    << "¿Cuánto tiempo lleva en la compañía y en el cargo?",
       "¿Sabe usted que debe actuar con diligencia y cuidado para asegurar la calidad y eficiencia en su trabajo, según el artículo 54 del Reglamento Interno?",
       "¿Conoce el Reglamento Interno de Trabajo?",
       "¿Considera que cometió una falta?",
       "¿Quiere agregar algo más a la presente diligencia?" >>

PreguntasAusencia ==
    << "¿Cuánto tiempo lleva en la compañía y en el cargo?",
       "¿Por qué no asistió a trabajar los días mencionados?",
       "¿Tiene algún soporte que justifique sus ausencias?",
       "¿Sabe usted que se les prohíbe a los trabajadores faltar al turno o jornada de trabajo sin justa causa de impedimento o sin permiso de la Empresa?",
       "¿Sabe usted que es una falta grave la falta parcial o total en la jornada de la mañana o de la tarde para el personal administrativo, o en el turno correspondiente para el personal operativo, sin excusa suficiente?",
       "¿Conoce el Reglamento Interno de Trabajo?",
       "¿Considera que cometió una falta?",
       "¿Quiere agregar algo más a la presente?" >>

PreguntasEpp ==
    << "¿Cuánto tiempo lleva en la compañía y en el cargo?",
       "¿Usted se encontraba haciendo caso omiso del uso de EPPS?",
       "¿Por qué motivo no estaba usando los EPPS?",
       "¿Sabe usted que es prohibido «Hacer caso omiso en el uso de los elementos de protección personal y ejecutar cualquier acto inseguro que ponga en peligro su seguridad»?",
       "¿Usted es consciente que pudo tener una afectación más grave ya que se trabaja en AGP con vidrio y maquinaria y el uso de EPPs es esencial para desarrollar las labores en AGP?",
       "¿Conoce el Reglamento Interno de Trabajo?",
       "¿Considera que cometió una falta?",
       "¿Quiere agregar algo más a la presente?" >>

PreguntasCelular ==
    << "¿Cuánto tiempo lleva en la compañía y en el cargo?",
       "¿Confirme o niegue si tenía permiso para utilizar el celular en el área de trabajo?",
       "¿En ocasiones anteriores ha hecho uso del celular en su puesto de trabajo?",
       "¿Usted conoce la política de celulares estipulada por la compañía?",
       "De acuerdo con la política de celulares, si existe alguna urgencia usted debe solicitar permiso a su jefe inmediato para utilizar el celular, ¿usted solicitó o informó a su jefe inmediato sobre el uso de su celular?",
       "¿Usted es consciente que utilizar el celular en el área de trabajo es un riesgo físico para usted y sus compañeros?",
       "¿Conoce el Reglamento Interno de Trabajo?",
       "¿Considera que cometió una falta?",
       "¿Quiere agregar algo más a la presente diligencia?" >>

PreguntasRetardo ==
    << "¿Cuánto tiempo lleva en la compañía y en el cargo?",
       "¿Confirma usted que se presentó con un retardo en su hora de llegada de xxxx minutos el día xxxx?",
       "¿Tenía usted permiso para presentarse con un retardo de xxxx minutos el día xxxx?",
       "¿Tiene algún soporte que justifique el retraso de xxxx minutos en su hora de llegada el día xxxx?",
       "¿Conoce el Reglamento Interno de Trabajo?",
       "¿Sabe usted que presentarse con un retraso puede ser considerado una falta grave?",
       "¿Sabe usted que está prohibido presentarse al puesto de trabajo con un retardo de hasta xxx minutos después de iniciada la jornada laboral?",
       "¿Considera que cometió una falta?",
       "¿Quiere agregar algo más a la presente?" >>

PreguntasDanio ==
    << "¿Cuánto tiempo lleva en la compañía y en el cargo?",
       "¿Puede explicar cómo ocurrió el daño del equipo o herramienta?",
       "¿Estaba siguiendo el procedimiento adecuado al momento del daño?",
       "¿Había reportado algún desperfecto o falla previa?",
       "¿Conoce el Reglamento Interno de Trabajo?",
       "¿Sabe que debe cuidar y utilizar adecuadamente las herramientas e instalaciones de la empresa?",
       "¿Considera que cometió una falta?",
       "¿Quiere agregar algo más a la presente diligencia?" >>

PreguntasOtros ==
    << "¿Cuánto tiempo lleva en la compañía y en el cargo?",
       "Describa brevemente los hechos que dieron lugar a esta diligencia.",
       "¿Tenía conocimiento de las normas aplicables a esta situación?",
       "¿Conoce el Reglamento Interno de Trabajo?",
       "¿Considera que cometió una falta?",
       "¿Quiere agregar algo más a la presente diligencia?" >>

\* the branch the if/elif chain takes for the normalised string
Rama(tipo) ==
    IF Contains(tipo, "procedimiento") THEN "procedimiento"
    ELSE IF Contains(tipo, "ausencia") THEN "ausencia"
    ELSE IF Contains(tipo, "epp") \/ Contains(tipo, "protección") THEN "epp"
    ELSE IF Contains(tipo, "celular") THEN "celular"
    ELSE IF Contains(tipo, "retardo") \/ Contains(tipo, "tardanza") THEN "retardo"
    ELSE IF Contains(tipo, "daño") \/ Contains(tipo, "herramienta") \/ Contains(tipo, "equipo")
         THEN "daño"
    ELSE "otros"

PreguntasDe(rama) ==
    CASE rama = "procedimiento" -> PreguntasProcedimiento
      [] rama = "ausencia" -> PreguntasAusencia
      [] rama = "epp" -> PreguntasEpp
      [] rama = "celular" -> PreguntasCelular
      [] rama = "retardo" -> PreguntasRetardo
      [] rama = "daño" -> PreguntasDanio
      [] rama = "otros" -> PreguntasOtros

\* (without .lower())
preguntas_sin_lower(tipo) == PreguntasDe(Rama(Strip(tipo)))
preguntas_base_por_tipo(tipo) == PreguntasDe(Rama(Lower(Strip(tipo))))

(***************************************************************************)
(* generar_preguntas_gemini                                                *)
(* (the bullet U+2022 of line 259 is written ·)                            *)
(***************************************************************************)
\* os.getenv("GEMINI_API_KEY"): None when the variable is not set
None == [def |-> FALSE, v |-> ""]
Str(s) == [def |-> TRUE, v |-> s]
\* (API_KEY is not None)
EsDefinida(k) == k.def
\* bool(API_KEY)
Truthy(k) == k.def /\ k.v # ""

\* [\n•\-]\s*
PatSeparador == Whole(Cat(<<One({"\n", "·", "-"}), Star(WS)>>))
\* ^\d+\.\s*
PatNumero == Whole(Cat(<<Bos, Plus(Digits), Lit("."), Star(WS)>>))
\* ¿[^?]+\?
PatPregunta == Whole(Cat(<<Lit("¿"), RepNot({"?"}, 1, -1, FALSE), Lit("?")>>))

SinPreguntasIA == "(La IA no generó preguntas adicionales correctamente.)"

\* [f(x) for x in s], [x for x in s if ok(x)], s[:n]
MapSeq(f(_), s) == [i \in 1..Len(s) |-> f(s[i])] \o <<>>
Filter(ok(_), s) == SelectSeq(s, ok)
\* (without the slice)
SinCorte(s, n) == s
Hasta(s, n) == SubSeq(s, 1, IF n < Len(s) THEN n ELSE Len(s))

\* parsed.get(k, d)
Get(parsed, k, d) == IF k \in DOMAIN parsed THEN parsed[k] ELSE d

\* the outcomes of model.generate_content(prompt) and res.text
LlmRaise == [k |-> "raise"]
LlmSinTexto == [k |-> "notext"]
LlmTexto(s) == [k |-> "text", text |-> s]

\* lines 255-269: the additional questions read out of the response text
LineaLarga(l) == Len(Strip(l)) > 10
SinNumero(l) == Strip(Sub(PatNumero, "", FALSE, l))
TerminaEnPregunta(q) == EndsWith(q, "?")
Candidatas(raw_text) ==
    Let(MapSeq(SinNumero, Filter(LineaLarga, Split(PatSeparador, raw_text))), LAMBDA ai_qs :
        IF Len(ai_qs) < 3 THEN FindAll(PatPregunta, raw_text) ELSE ai_qs)
PreguntasIA(text, max_ai) ==
    Let(Hasta(MapSeq(Strip, Filter(TerminaEnPregunta, Candidatas(Strip(text)))), max_ai),
        LAMBDA ai_qs : IF ai_qs = <<>> THEN <<SinPreguntasIA>> ELSE ai_qs)

\* the call's outcome: the list returned (ret), the exception that leaves
\* the function (exc, "" for none) and the number of generate_content calls
Devuelve(lista, n) == [ret |-> lista, exc |-> "", llm |-> n]
Lanza(e, n) == [ret |-> <<>>, exc |-> e, llm |-> n]

generar_preguntas_gemini(parsed, max_ai, api_key, res) ==
    Let(preguntas_base_por_tipo(Get(parsed, "tipo_falta", "otros")), LAMBDA base :
        IF ~Truthy(api_key) THEN Devuelve(base, 0)
        ELSE IF {"tipo_falta", "detalle", "articulos"} \ DOMAIN parsed # {}
             THEN Lanza("KeyError", 0)
        ELSE IF res.k # "text" THEN Devuelve(base, 1)
        ELSE Devuelve(base \o PreguntasIA(res.text, max_ai), 1))

(***************************************************************************)
(* leer_texto_pdf                                                          *)
(***************************************************************************)
\* what page.extract_text() does: returns a string, returns None (a page
\* without a text layer), or raises
Pagina(s) == [k |-> "text", text |-> s]
PaginaNone == [k |-> "none"]
PaginaError == [k |-> "raise"]
\* a file: whether pdfplumber.open succeeds, and its pages
Pdf(pages) == [abre |-> TRUE, pages |-> pages]
PdfIlegible == [abre |-> FALSE, pages |-> <<>>]

\* texto += page.extract_text() + "\n" over pages[a..b], by halves
RECURSIVE TextoPaginas(_, _, _)
TextoPaginas(pages, a, b) ==
    IF a > b THEN ""
    ELSE IF a = b THEN pages[a].text \o "\n"
    ELSE TextoPaginas(pages, a, (a + b) \div 2) \o TextoPaginas(pages, (a + b) \div 2 + 1, b)

\* (the text read before the failure is returned)
leer_parcial(pdf) ==
    IF ~pdf.abre THEN ""
    ELSE Let({i \in 1..Len(pdf.pages) : pdf.pages[i].k # "text"}, LAMBDA malas :
         Strip(Sub(PatBlancos, " ", FALSE,
             TextoPaginas(pdf.pages, 1, IF malas = {} THEN Len(pdf.pages) ELSE MinOf(malas) - 1))))
leer_texto_pdf(pdf) ==
    IF ~pdf.abre \/ \E i \in 1..Len(pdf.pages) : pdf.pages[i].k # "text" THEN ""
    ELSE Strip(Sub(PatBlancos, " ", FALSE, TextoPaginas(pdf.pages, 1, Len(pdf.pages))))

(***************************************************************************)
(* generar_acta                                                            *)
(***************************************************************************)
RECURSIVE Repetir(_, _)
Repetir(s, n) ==
    IF n = 0 THEN ""
    ELSE IF n = 1 THEN s
    ELSE Repetir(s, n \div 2) \o Repetir(s, n - n \div 2)

\* lines 283-289
RECURSIVE BloquePreguntas(_, _, _)
BloquePreguntas(lista, a, b) ==
    IF a > b THEN ""
    ELSE IF a = b
         THEN "PREGUNTA:\n" \o ToString(a) \o ". " \o lista[a] \o "\nRESPUESTA:\n\n\n"
              \o Repetir("_", 80) \o "\n\n"
    ELSE BloquePreguntas(lista, a, (a + b) \div 2)
         \o BloquePreguntas(lista, (a + b) \div 2 + 1, b)

\* lines 291-299; ahora is datetime.now().strftime("%d/%m/%Y %H:%M")
Contexto(parsed, lista, ahora) ==
    [nombre           |-> parsed["nombre"],
     fecha_citacion   |-> parsed["fecha_citacion"],
     fecha_hecho      |-> parsed["fecha_hecho"],
     detalle          |-> parsed["detalle"],
     articulos        |-> parsed["articulos"],
     preguntas        |-> BloquePreguntas(lista, 1, Len(lista)),
     fecha_generacion |-> ahora]

\* line 302
Salida(parsed) == "Acta_" \o Replace(parsed["nombre"], " ", "_") \o ".docx"

\* the variables plantillas_acta2.docx refers to
CamposPlantilla ==
    {"nombre", "fecha_citacion", "fecha_hecho", "detalle", "articulos", "preguntas",
     "fecha_generacion"}

\* doc.render(contexto), line 303, is called without autoescape: docxtpl
\* pastes each value into the document's XML as it is and parses the result.
\* A value with a markup character is then not well-formed XML: a docxtpl
\* that parses strictly raises, one that parses in recovery mode keeps what
\* the parser could read (an & that starts a well-formed entity is not among
\* the inputs).
Markup == {"&", "<"}
XmlValido(v) == CharsOf(v) \cap Markup = {}
Recuperado(v) ==
    Join(SelectSeq(ToChars(v), LAMBDA c : c \notin Markup))
Render(contexto, estricto) ==
    IF estricto /\ \E c \in CamposPlantilla : ~XmlValido(contexto[c])
    THEN [ok |-> FALSE, texto |-> <<>>]
    ELSE [ok |-> TRUE, texto |-> [c \in CamposPlantilla |-> Recuperado(contexto[c])]]

\* the call's outcome: the file written (<<>> for none), the value returned
\* and the exception that leaves the function ("" for none)
generar_acta(parsed, lista, ahora, estricto) ==
    IF {"nombre", "fecha_citacion", "fecha_hecho", "detalle", "articulos"} \ DOMAIN parsed # {}
    THEN [ret |-> "", exc |-> "KeyError", archivo |-> <<>>, contexto |-> <<>>]
    ELSE Let(Contexto(parsed, lista, ahora), LAMBDA contexto :
         Let(Render(contexto, estricto), LAMBDA doc :
             IF ~doc.ok
             THEN [ret |-> "", exc |-> "XMLSyntaxError", archivo |-> <<>>, contexto |-> contexto]
             ELSE [ret |-> Salida(parsed), exc |-> "",
                   archivo |-> [nombre |-> Salida(parsed), texto |-> doc.texto],
                   contexto |-> contexto]))

(***************************************************************************)
(* Inputs: transcripts                                                     *)
(***************************************************************************)
MaxFrags == 2

Fragmentos ==
    << "Señor(a): JUAN PEREZ ",
       "1234567 ",
       "Señor(a) juan ",
       "el día 12 de marzo\nde 2025 a las 3:00 p.m. ",
       "compañía: llegó tarde.\n",
       "Cometidos el día: 10/03/2025 ",
       "Tipo de Falta: GRAVE por ausencia. ",
       "Tipo de Falta - Leve",
       "Las conductas que se le imputan se han calificado provisionalmente como Falta Grave en la empresa: Artículo 54 numeral 3 del reglamento. ",
       "Se le informa al trabajador sobre la oportunidad de presentar ",
       "empresa:  " >>

RECURSIVE Concats(_)
Concats(n) ==
    IF n = 0 THEN {""}
    ELSE Concats(n - 1) \cup {t \o Fragmentos[f] : t \in Concats(n - 1), f \in 1..Len(Fragmentos)}

\* whole notices
CitacionUno ==
    "Bogotá, 5 de marzo de 2025\nSeñor(a)\nJUAN PEREZ\n1234567\nAsunto: citación a descargos.\nSe le cita el día 12 de marzo de 2025 a las 3:00 p.m. en la oficina de Gestión Humana de la compañía: usó el celular en planta.\nCometidos el día: 10/03/2025\nTipo de Falta: Uso de celular.\nLas conductas que se le imputan se han calificado provisionalmente como Falta Grave según el reglamento de la empresa:\nArtículo 54 numeral 3.  Artículo 60 literal b.\nSe le informa al trabajador sobre la oportunidad de presentar pruebas."
CitacionDos ==
    "señor (a) - ANA MARÍA NUÑEZ 10203040 queda citada el dia 3 de abril 2025 a las 10:30 am por hechos en la compañia- daño del equipo A&B en turno, Cometidos el dia 01-04-2025 TIPO DE FALTA  Daño de herramienta según reporte. las conductas que se le imputan se han calificado provisionalmente como falta grave por la Empresa Art 5 se le informa al trabajador sobre la oportunidad de presentar"
SinFormato ==
    "Circular interna: se recuerda a todo el personal el horario de atención."
Completas == {CitacionUno, CitacionDos, SinFormato}

Transcripts == Concats(MaxFrags) \cup Completas

(***************************************************************************)
(* Inputs: files, offence types, records, responses of the language model  *)
(***************************************************************************)
\* the sequences over S of length at most n
SeqsUpTo(S, n) == UNION {[1..k -> S] : k \in 0..n}

MaxPaginas == 2
Paginas ==
    {Pagina(" Señor(a)\n JUAN  PEREZ\t"), Pagina("1234567\n\n"), Pagina(""),
     PaginaNone, PaginaError}
PDFs == {PdfIlegible} \cup {Pdf(ps) : ps \in SeqsUpTo(Paginas, MaxPaginas)}

MaxPalabras == 2
Palabras ==
    {"procedimiento", "AUSENCIA", "Epp", "PROTECCIÓN", "celular", "Retardo",
     "tardanza", "DAÑO", "herramienta", "equipo", "Grave", " ", "\n", "e"}
RECURSIVE Frases(_)
Frases(n) ==
    IF n = 0 THEN {""}
    ELSE Frases(n - 1) \cup {t \o w : t \in Frases(n - 1), w \in Palabras}
Tipos == Frases(MaxPalabras)

\* records as extraer_datos_citacion returns them, and dicts without some keys
RegistroUno ==
    [nombre |-> "Juan Perez", cedula |-> "1234567",
     fecha_citacion |-> "12 de marzo de 2025 a las 3:00 p.m.", fecha_hecho |-> "10/03/2025",
     detalle |-> "usó el celular en planta.", tipo_falta |-> "Uso De Celular",
     articulos |-> "Artículo 54 numeral 3. \nArtículo 60 literal b."]
RegistroDos ==
    [nombre |-> "No encontrado", cedula |-> "10203040",
     fecha_citacion |-> "3 de abril 2025 a las 10:30 am", fecha_hecho |-> "01-04-2025",
     detalle |-> "daño del equipo A&B en turno,", tipo_falta |-> "Daño De Herramienta",
     articulos |-> "No se encontraron artículos válidos."]
RegistroVacio ==
    [nombre |-> "", cedula |-> "No encontrada", fecha_citacion |-> "No encontrada",
     fecha_hecho |-> "No encontrada", detalle |-> "x < y", tipo_falta |-> "",
     articulos |-> "No se encontraron los artículos en la citación."]
SinTipo == [nombre |-> "Juan Perez", detalle |-> "llegó tarde", articulos |-> "Artículo 54"]
SinDetalle == [nombre |-> "Juan Perez", tipo_falta |-> "Retardo"]
Registros == {RegistroUno, RegistroDos, RegistroVacio, SinTipo, SinDetalle}

MaxAi == 2
MaxLineas == 3
LineasIA ==
    {"1. ¿Qué ocurrió ese día?", "- ¿Usó el equipo anti-caídas ese día?",
     "Claro, aquí están las preguntas: ", "¿Por qué? · ¿Cuándo ocurrió el hecho? "}
RECURSIVE Textos(_)
Textos(n) ==
    IF n = 0 THEN {""}
    ELSE Textos(n - 1)
         \cup {IF t = "" THEN l ELSE t \o "\n" \o l : t \in Textos(n - 1), l \in LineasIA}
Respuestas == {LlmRaise, LlmSinTexto} \cup {LlmTexto(t) : t \in Textos(MaxLineas)}

ListasPreguntas ==
    {<<>>, PreguntasOtros, PreguntasCelular \o <<SinPreguntasIA>>, <<"¿Usó guantes & gafas?">>}
Relojes == {"06/11/2026 09:30"}
Claves == {None, Str(""), Str("clave")}

\* the files of the programs: a notice, a notice whose detail holds an &, a
\* text without the notice's phrases, a scan, a file whose second page
\* cannot be read, a file that does not open, texts of 49 and 50 characters
Citaciones ==
    << Pdf(<<Pagina(CitacionUno)>>),
       Pdf(<<Pagina(CitacionDos)>>),
       Pdf(<<Pagina(SinFormato)>>),
       Pdf(<<Pagina(""), PaginaNone>>),
       Pdf(<<Pagina(CitacionUno), PaginaError>>),
       PdfIlegible,
       Pdf(<<Pagina("  Se cita al trabajador a las oficinas de\npersonal.  \n")>>),
       Pdf(<<Pagina("Se cita al trabajador a la oficina"), Pagina("de personal hoy")>>) >>
MaxArchivos == 2
Carpetas == SeqsUpTo(1..Len(Citaciones), MaxArchivos)

RespuestasPrograma ==
    {LlmRaise,
     LlmTexto("1. ¿Qué ocurrió ese día?\n2. ¿Quién lo vio en la planta?\n3. ¿Avisó a su jefe?"),
     LlmTexto("No puedo ayudar con eso.")}
MaxEditables == 1
Ediciones == {"¿Usó guantes & gafas?"}

(***************************************************************************)
(* State                                                                   *)
(***************************************************************************)
VARIABLES
    API_KEY,        \* main.py's module variable
    entrada,        \* what is run: a function of main.py with its arguments,
                    \* main() or the app
    historial,      \* the outcomes of the function calls made so far
    pc,             \* the position of main()
    carpeta,        \* the files of Citaciones/*.pdf, in the order glob lists them
    archivo_pdf,    \* app.py: the file in the uploader (0: none)
    session_state,  \* app.py: st.session_state
    visible,        \* app.py: the widgets the last run of the script drew
    evento,         \* app.py: what triggered the last run of the script
    texto,          \* the local of main() and of the script
    datos,          \* the local of main() and of the script
    preguntas,      \* the local of main()
    etapas,         \* the calls and notices of the run, in order
    llm,            \* the calls of generate_content made by the run
    escritos,       \* the files generar_acta saved in the run
    generadas,      \* app.py: generar_preguntas_gemini was called in the session
    llamada_acta,   \* the arguments of the run's call of generar_acta
    error           \* the exception that ended the run ("": none)

funcion == <<entrada, historial>>
programa ==
    <<pc, carpeta, archivo_pdf, session_state, visible, evento, texto, datos, preguntas,
      etapas, llm, escritos, generadas, llamada_acta, error>>
vars == <<API_KEY, funcion, programa>>

\* the state of a program before it runs
Parado ==
    /\ archivo_pdf = 0 /\ session_state = <<>> /\ visible = {} /\ evento = "inicio"
    /\ texto = "" /\ datos = <<>> /\ preguntas = <<>> /\ etapas = <<>> /\ llm = 0
    /\ escritos = <<>> /\ generadas = FALSE /\ llamada_acta = <<>> /\ error = ""

MaxCalls == 2

Resultado == historial[Len(historial)]

(***************************************************************************)
(* The functions of main.py, each called on the input drawn at the start   *)
(***************************************************************************)
EntradasLeer == {[fn |-> "leer_texto_pdf", pdf |-> p] : p \in PDFs}
EntradasBase == {[fn |-> "preguntas_base_por_tipo", tipo |-> t] : t \in Tipos}
EntradasGemini ==
    {[fn |-> "generar_preguntas_gemini", parsed |-> p, max_ai |-> m, res |-> r] :
        p \in {RegistroUno, RegistroDos, SinTipo}, m \in 1..MaxAi, r \in Respuestas}
EntradasActa ==
    {[fn |-> "generar_acta", parsed |-> p, preguntas |-> q, ahora |-> a, estricto |-> e] :
        p \in Registros, q \in ListasPreguntas, a \in Relojes, e \in BOOLEAN}
EntradasExtraer == {[fn |-> "extraer_datos_citacion", texto |-> t] : t \in Transcripts}

\* (API_KEY is read by generar_preguntas_gemini only)
Init ==
    /\ entrada \in EntradasLeer \cup EntradasBase \cup EntradasGemini \cup EntradasActa
    /\ API_KEY \in IF entrada.fn = "generar_preguntas_gemini" THEN Claves ELSE {None}
    /\ historial = <<>>
    /\ pc = "fin" /\ carpeta = <<>> /\ Parado

CallLeer ==
    /\ entrada.fn = "leer_texto_pdf" /\ historial = <<>>
    /\ historial' = <<leer_texto_pdf(entrada.pdf)>>
    /\ UNCHANGED <<API_KEY, entrada, programa>>

\* preguntas_base_por_tipo may be called again with the same string
CallBase ==
    /\ entrada.fn = "preguntas_base_por_tipo" /\ Len(historial) < MaxCalls
    /\ historial' = Append(historial, preguntas_base_por_tipo(entrada.tipo))
    /\ UNCHANGED <<API_KEY, entrada, programa>>

CallGemini ==
    /\ entrada.fn = "generar_preguntas_gemini" /\ historial = <<>>
    /\ historial' =
          <<generar_preguntas_gemini(entrada.parsed, entrada.max_ai, API_KEY, entrada.res)>>
    /\ UNCHANGED <<API_KEY, entrada, programa>>

CallActa ==
    /\ entrada.fn = "generar_acta" /\ historial = <<>>
    /\ historial' =
          <<generar_acta(entrada.parsed, entrada.preguntas, entrada.ahora, entrada.estricto)>>
    /\ UNCHANGED <<API_KEY, entrada, programa>>

Next == CallLeer \/ CallBase \/ CallGemini \/ CallActa

Spec == Init /\ [][Next]_vars

\* extraer_datos_citacion on the transcripts
InitExtraer ==
    /\ API_KEY = None
    /\ entrada \in EntradasExtraer
    /\ historial = <<>>
    /\ pc = "fin" /\ carpeta = <<>> /\ Parado

CallExtraer ==
    /\ entrada.fn = "extraer_datos_citacion" /\ historial = <<>>
    /\ historial' = <<extraer_datos_citacion(entrada.texto)>>
    /\ UNCHANGED <<API_KEY, entrada, programa>>

NextExtraer == CallExtraer

SpecExtraer == InitExtraer /\ [][NextExtraer]_vars


(***************************************************************************)
(* main()                                                                  *)
(***************************************************************************)
\* the default of generar_preguntas_gemini's max_ai
MaxAiDefecto == 5

TextoVacio(t) == t = ""
\* if len(texto) < 50
TextoInsuficiente(t) == Len(t) < 50

\* archivos = [...]; if not archivos: print(...); return; archivo = archivos[0]
MainArchivos ==
    /\ entrada.fn = "main" /\ pc = "inicio"
    /\ IF carpeta = <<>>
       THEN pc' = "fin" /\ etapas' = Append(etapas, "sin_pdfs")
       ELSE pc' = "leer" /\ UNCHANGED etapas
    /\ UNCHANGED <<API_KEY, funcion, carpeta, archivo_pdf, session_state, visible, evento,
                   texto, datos, preguntas, llm, escritos, generadas, llamada_acta, error>>

\* texto = leer_texto_pdf(archivo); if len(texto) < 50: print(...); return
MainLeer ==
    /\ entrada.fn = "main" /\ pc = "leer"
    /\ texto' = leer_texto_pdf(Citaciones[carpeta[1]])
    /\ IF TextoInsuficiente(texto')
       THEN pc' = "fin" /\ etapas' = etapas \o <<"leer", "sin_texto">>
       ELSE pc' = "extraer" /\ etapas' = Append(etapas, "leer")
    /\ UNCHANGED <<API_KEY, funcion, carpeta, archivo_pdf, session_state, visible, evento,
                   datos, preguntas, llm, escritos, generadas, llamada_acta, error>>

\* datos = extraer_datos_citacion(texto)
MainExtraer ==
    /\ entrada.fn = "main" /\ pc = "extraer"
    /\ datos' = extraer_datos_citacion(texto)
    /\ etapas' = Append(etapas, "extraer")
    /\ pc' = "preguntas"
    /\ UNCHANGED <<API_KEY, funcion, carpeta, archivo_pdf, session_state, visible, evento,
                   texto, preguntas, llm, escritos, generadas, llamada_acta, error>>

\* preguntas = generar_preguntas_gemini(datos)
MainPreguntas ==
    /\ entrada.fn = "main" /\ pc = "preguntas"
    /\ \E res \in RespuestasPrograma :
          \E r \in {generar_preguntas_gemini(datos, MaxAiDefecto, API_KEY, res)} :
              /\ preguntas' = r.ret
              /\ llm' = llm + r.llm
              /\ error' = r.exc
              /\ pc' = IF r.exc = "" THEN "acta" ELSE "fin"
    /\ etapas' = Append(etapas, "preguntas")
    /\ UNCHANGED <<API_KEY, funcion, carpeta, archivo_pdf, session_state, visible, evento,
                   texto, datos, escritos, generadas, llamada_acta>>

\* a main() that goes on with the next file of the folder
MainTodos ==
    /\ entrada.fn = "main" /\ pc = "acta"
    /\ \E ahora \in Relojes, estricto \in BOOLEAN :
          \E r \in {generar_acta(datos, preguntas, ahora, estricto)} :
              /\ escritos' = IF r.exc = "" THEN Append(escritos, r.archivo) ELSE escritos
              /\ error' = r.exc
              /\ pc' = IF r.exc = "" /\ Len(carpeta) > 1 THEN "leer" ELSE "fin"
    /\ carpeta' = IF Len(carpeta) > 1 THEN Tail(carpeta) ELSE carpeta
    /\ llamada_acta' = [parsed |-> datos, preguntas |-> preguntas]
    /\ etapas' = Append(etapas, "acta")
    /\ UNCHANGED <<API_KEY, funcion, archivo_pdf, session_state, visible, evento,
                   texto, datos, preguntas, llm, generadas>>
\* generar_acta(datos, preguntas)
MainActa ==
    /\ entrada.fn = "main" /\ pc = "acta"
    /\ \E ahora \in Relojes, estricto \in BOOLEAN :
          \E r \in {generar_acta(datos, preguntas, ahora, estricto)} :
              /\ escritos' = IF r.exc = "" THEN Append(escritos, r.archivo) ELSE escritos
              /\ error' = r.exc
    /\ llamada_acta' = [parsed |-> datos, preguntas |-> preguntas]
    /\ etapas' = Append(etapas, "acta")
    /\ pc' = "fin"
    /\ UNCHANGED <<API_KEY, funcion, carpeta, archivo_pdf, session_state, visible, evento,
                   texto, datos, preguntas, llm, generadas>>

(***************************************************************************)
(* app.py: the script runs from top to bottom once for every event of the  *)
(* session                                                                 *)
(***************************************************************************)
\* leer_texto_pdf(temp_path) and extraer_datos_citacion(texto) for each file
\* (the script computes them again in every run)
Leido == [p \in 1..Len(Citaciones) |-> leer_texto_pdf(Citaciones[p])] \o <<>>
Extraido == [p \in 1..Len(Citaciones) |-> extraer_datos_citacion(Leido[p])] \o <<>>

SiemprePulsado(boton, tipo) == TRUE
\* st.button(...) is True in the run its press triggers
Pulsado(boton, tipo) == tipo = boton

\* if archivo_pdf: ... if len(texto) < 50: st.error(...); st.stop()
Llega(pdf) == pdf # 0 /\ ~TextoInsuficiente(Leido[pdf])

\* st.text_input(f"Pregunta {i+1}", pregunta, key=f"preg_{i}") over the list:
\* the input the user has just edited returns the new text, the others
\* their value argument
Editadas(lista, tipo, i, nueva) ==
    IF tipo = "editar" /\ i \in 1..Len(lista) THEN [lista EXCEPT ![i] = nueva] ELSE lista

\* the script from "if st.button('Generar preguntas con IA')" on, for a file
\* whose text passed the check; r is the outcome of generar_preguntas_gemini
Preguntas(pdf, tipo, r, i, nueva, ahora, estricto) ==
    \E s1 \in {IF Pulsado("generar", tipo) /\ r.exc = "" THEN [preguntas |-> r.ret]
                ELSE session_state} :
    \E falla \in {Pulsado("generar", tipo) /\ r.exc # ""} :
    \E hay \in {~falla /\ "preguntas" \in DOMAIN s1} :
    \E s2 \in {IF hay THEN [preguntas |-> Editadas(s1.preguntas, tipo, i, nueva)] ELSE s1} :
    \E hace \in {hay /\ Pulsado("acta", tipo)} :
    \E a \in {IF hace THEN generar_acta(Extraido[pdf], s2.preguntas, ahora, estricto)
               ELSE [exc |-> "", archivo |-> <<>>]} :
        /\ session_state' = s2
        /\ visible' = IF hay THEN {"datos", "generar", "editar", "acta"}
                      ELSE {"datos", "generar"}
        /\ etapas' = <<"leer", "extraer">>
                     \o (IF Pulsado("generar", tipo) THEN <<"preguntas">> ELSE <<>>)
                     \o (IF hace THEN <<"acta">> ELSE <<>>)
        /\ llm' = IF Pulsado("generar", tipo) THEN r.llm ELSE 0
        /\ generadas' = (generadas \/ Pulsado("generar", tipo))
        /\ llamada_acta' = IF hace THEN [parsed |-> Extraido[pdf], preguntas |-> s2.preguntas]
                           ELSE <<>>
        /\ escritos' = IF hace /\ a.exc = "" THEN <<a.archivo>> ELSE <<>>
        /\ error' = IF falla THEN r.exc ELSE a.exc

\* one run of the script: pdf is the uploader's file, tipo the event
Rerun(pdf, tipo, res, i, nueva, ahora, estricto) ==
    /\ archivo_pdf' = pdf
    /\ evento' = tipo
    /\ texto' = IF pdf = 0 THEN "" ELSE Leido[pdf]
    /\ datos' = IF Llega(pdf) THEN Extraido[pdf] ELSE <<>>
    /\ IF Llega(pdf)
       THEN Preguntas(pdf, tipo,
                      IF Pulsado("generar", tipo)
                      THEN generar_preguntas_gemini(Extraido[pdf], MaxAiDefecto, API_KEY, res)
                      ELSE Devuelve(<<>>, 0),
                      i, nueva, ahora, estricto)
       ELSE /\ etapas' = IF pdf = 0 THEN <<>> ELSE <<"leer", "sin_texto">>
            /\ visible' = {}
            /\ llm' = 0 /\ llamada_acta' = <<>> /\ escritos' = <<>> /\ error' = ""
            /\ UNCHANGED <<session_state, generadas>>
    /\ UNCHANGED <<API_KEY, funcion, pc, carpeta, preguntas>>

\* the events of a session
Subir ==
    /\ entrada.fn = "app"
    /\ \E p \in 1..Len(Citaciones) :
          p # archivo_pdf /\ Rerun(p, "subir", LlmRaise, 0, "", "", FALSE)

Quitar ==
    /\ entrada.fn = "app" /\ archivo_pdf # 0
    /\ Rerun(0, "quitar", LlmRaise, 0, "", "", FALSE)

\* the inputs of the extracted fields (key="nombre", ...) are edited
EditarDato ==
    /\ entrada.fn = "app" /\ "datos" \in visible
    /\ Rerun(archivo_pdf, "dato", LlmRaise, 0, "", "", FALSE)

PulsarGenerar ==
    /\ entrada.fn = "app" /\ "generar" \in visible
    /\ \E res \in RespuestasPrograma : Rerun(archivo_pdf, "generar", res, 0, "", "", FALSE)

EditarPregunta ==
    /\ entrada.fn = "app" /\ "editar" \in visible
    /\ \E i \in 1..MinOf({MaxEditables, Len(session_state.preguntas)}), nueva \in Ediciones :
          Rerun(archivo_pdf, "editar", LlmRaise, i, nueva, "", FALSE)

PulsarActa ==
    /\ entrada.fn = "app" /\ "acta" \in visible
    /\ \E ahora \in Relojes, estricto \in BOOLEAN :
          Rerun(archivo_pdf, "acta", LlmRaise, 0, "", ahora, estricto)

(***************************************************************************)
(* The two programs                                                        *)
(***************************************************************************)
InitPrograma ==
    /\ API_KEY \in Claves
    /\ entrada \in {[fn |-> "main"], [fn |-> "app"]}
    /\ historial = <<>>
    /\ pc = IF entrada.fn = "main" THEN "inicio" ELSE "script"
    /\ carpeta \in IF entrada.fn = "main" THEN Carpetas ELSE {<<>>}
    /\ Parado

NextPrograma ==
    \/ MainArchivos \/ MainLeer \/ MainExtraer \/ MainPreguntas \/ MainActa
    \/ Subir \/ Quitar \/ EditarDato \/ PulsarGenerar \/ EditarPregunta \/ PulsarActa

SpecPrograma == InitPrograma /\ [][NextPrograma]_vars

(***************************************************************************)
(* Properties of extraer_datos_citacion                                    *)
(***************************************************************************)
Llamada(f) == entrada.fn = f /\ historial # <<>>

Campos ==
    {"nombre", "cedula", "fecha_citacion", "fecha_hecho", "detalle", "tipo_falta", "articulos"}
CamposPatron == Campos \ {"articulos"}
PatronDe ==
    [nombre |-> PatNombre, cedula |-> PatCedula, fecha_citacion |-> PatFechaCitacion,
     fecha_hecho |-> PatFechaHecho, detalle |-> PatDetalle, tipo_falta |-> PatTipoFalta]
CentinelaDe ==
    [nombre |-> "No encontrado", cedula |-> "No encontrada",
     fecha_citacion |-> "No encontrada", fecha_hecho |-> "No encontrada",
     detalle |-> "No se encontró detalle", tipo_falta |-> "No encontrada",
     articulos |-> "No se encontraron los artículos en la citación."]
\* a word every match of the field's pattern contains, in lower case
PalabraDe ==
    [nombre |-> "eñor", cedula |-> "señor", fecha_citacion |-> "las",
     fecha_hecho |-> "cometidos", detalle |-> "cometidos", tipo_falta |-> "falta"]

\* the field's pattern matches the transcript; for articulos, both delimiters do
Coincide(c, t) ==
    IF c = "articulos"
    THEN Search(PatInicio, Subject(Normalizar(t))).ok /\ Search(PatFin, Subject(Normalizar(t))).ok
    ELSE Search(PatronDe[c], Subject(Normalizar(t))).ok

\* C1: a field whose pattern does not match the transcript (in particular
\* one whose keyword the transcript does not contain) holds its sentinel,
\* articulos holds its sentinel when a delimiter is absent, the record has
\* the seven keys, and a field is empty only when its pattern matched (the
\* empty string is then what the match captured, stripped).
C1_Sentinels ==
    Llamada("extraer_datos_citacion") =>
        /\ DOMAIN Resultado = Campos
        /\ \A c \in Campos :
              /\ ~Coincide(c, entrada.texto) => Resultado[c] = CentinelaDe[c]
              /\ Resultado[c] = "" => Coincide(c, entrada.texto)
        /\ \A c \in CamposPatron :
              ~Contains(Lower(entrada.texto), PalabraDe[c]) => Resultado[c] = CentinelaDe[c]
        /\ ~Contains(Lower(entrada.texto), "imputan") \/ ~Contains(Lower(entrada.texto), "informa")
              => Resultado.articulos = CentinelaDe.articulos

C1_Witness ==
    /\ Llamada("extraer_datos_citacion")
    /\ Resultado.nombre = "Juan Perez"
    /\ Resultado.cedula = "No encontrada"
    /\ Resultado.detalle = "No se encontró detalle"
    /\ Resultado.articulos = "No se encontraron los artículos en la citación."

\* C2 as stated: every field whose pattern matched occurs character for
\* character in the transcript.
C2_Literal ==
    Llamada("extraer_datos_citacion") =>
        \A c \in Campos :
            Coincide(c, entrada.texto) => Contains(entrada.texto, Resultado[c])

\* the string without its white space
SinBlancos(s) == Join(SelectSeq(ToChars(s), LAMBDA c : c \notin WS))

\* C2, amended: the matched fields are taken from the transcript with its
\* line breaks replaced by spaces.  cedula, fecha_citacion, fecha_hecho and
\* detalle are substrings of it; nombre and tipo_falta are title-cased and
\* occur in it up to letter case; articulos is 'No se encontraron artículos
\* válidos.' or a text of more than 20 characters that occurs in it up to
\* white space.
C2_Substring ==
    Llamada("extraer_datos_citacion") =>
        /\ \A c \in {"cedula", "fecha_citacion", "fecha_hecho", "detalle"} :
              Coincide(c, entrada.texto)
                  => Contains(Normalizar(entrada.texto), Resultado[c])
        /\ \A c \in {"nombre", "tipo_falta"} :
              Coincide(c, entrada.texto)
                  => /\ Resultado[c] = Title(Resultado[c])
                     /\ Contains(Lower(Normalizar(entrada.texto)), Lower(Resultado[c]))
        /\ Coincide("articulos", entrada.texto)
              => \/ Resultado.articulos = "No se encontraron artículos válidos."
                 \/ /\ Len(Resultado.articulos) > 20
                    /\ Contains(SinBlancos(entrada.texto), SinBlancos(Resultado.articulos))

C2_Witness ==
    /\ Llamada("extraer_datos_citacion")
    /\ \A c \in Campos : Coincide(c, entrada.texto)
    /\ Resultado.nombre = "Juan Perez"
    /\ Resultado.fecha_citacion = "12 de marzo de 2025 a las 3:00 p.m."
    /\ Resultado.detalle = "usó el celular en planta."
    /\ Resultado.articulos = "Artículo 54 numeral 3. \nArtículo 60 literal b."

(***************************************************************************)
(* Properties of preguntas_base_por_tipo                                   *)
(***************************************************************************)
\* the keywords of the six branches in the order the code tests them, and
\* the lists they return
Grupos ==
    << {"procedimiento"}, {"ausencia"}, {"epp", "protección"}, {"celular"},
       {"retardo", "tardanza"}, {"daño", "herramienta", "equipo"} >>
Listas ==
    << PreguntasProcedimiento, PreguntasAusencia, PreguntasEpp, PreguntasCelular,
       PreguntasRetardo, PreguntasDanio, PreguntasOtros >>
\* the word occurs in x, in any letter case
Ocurre(x, w) ==
    \E i \in 1..(Len(x) - Len(w) + 1) : Lower(SubSeq(x, i, i + Len(w) - 1)) = w
Menciona(x, g) == \E w \in Grupos[g] : Ocurre(x, w)

\* C3: every string selects exactly one of the seven lists: that of the
\* first branch, in the code's order, one of whose keywords the string
\* contains in any letter case, and the default list when there is none;
\* a later call with the same string returns an equal list.
C3_TotalIdempotent ==
    Llamada("preguntas_base_por_tipo") =>
        /\ Cardinality({l \in 1..7 : Listas[l] = Resultado}) = 1
        /\ \A g \in 1..6 :
              (Menciona(entrada.tipo, g) /\ \A h \in 1..(g - 1) : ~Menciona(entrada.tipo, h))
                  => Resultado = Listas[g]
        /\ (\A g \in 1..6 : ~Menciona(entrada.tipo, g)) => Resultado = Listas[7]
        /\ \A i \in 1..Len(historial) : historial[i] = historial[1]

C3_Witness ==
    /\ Llamada("preguntas_base_por_tipo")
    /\ Len(historial) = 2
    /\ Menciona(entrada.tipo, 3) /\ Menciona(entrada.tipo, 4)
    /\ Resultado = PreguntasEpp

(***************************************************************************)
(* Properties of generar_preguntas_gemini and leer_texto_pdf               *)
(***************************************************************************)
SinCredencial == API_KEY = None \/ API_KEY = Str("")
TipoDe(parsed) == IF "tipo_falta" \in DOMAIN parsed THEN parsed.tipo_falta ELSE "otros"
ConClaves(parsed) == {"tipo_falta", "detalle", "articulos"} \subseteq DOMAIN parsed

\* C4: without a credential (GEMINI_API_KEY not set, or set to the empty
\* string) generar_preguntas_gemini returns exactly the base list of
\* parsed's tipo_falta, the list for 'otros' when the key is missing, and
\* makes no call to the language model.
C4_SinCredencial ==
    (Llamada("generar_preguntas_gemini") /\ SinCredencial) =>
        /\ Resultado.exc = ""
        /\ Resultado.llm = 0
        /\ Resultado.ret = preguntas_base_por_tipo(TipoDe(entrada.parsed))
        /\ "tipo_falta" \notin DOMAIN entrada.parsed => Resultado.ret = PreguntasOtros

C4_Witness ==
    /\ Llamada("generar_preguntas_gemini")
    /\ API_KEY = Str("")
    /\ entrada.parsed = RegistroUno
    /\ entrada.res.k = "text" /\ Contains(entrada.res.text, "?")
    /\ Resultado.ret = PreguntasCelular

\* C5: leer_texto_pdf returns "" when the file does not open or a page's
\* text cannot be read, whatever the pages before it held; with a
\* credential, generar_preguntas_gemini returns exactly the base list when
\* the call to the language model raises or its response has no text; no
\* exception leaves generar_preguntas_gemini in these cases.
C5_Degrada ==
    /\ (Llamada("leer_texto_pdf")
          /\ (~entrada.pdf.abre \/ \E i \in 1..Len(entrada.pdf.pages) :
                                       entrada.pdf.pages[i].k # "text"))
          => Resultado = ""
    /\ (Llamada("generar_preguntas_gemini") /\ ~SinCredencial /\ ConClaves(entrada.parsed)
          /\ entrada.res.k # "text")
          => /\ Resultado.exc = ""
             /\ Resultado.llm = 1
             /\ Resultado.ret = preguntas_base_por_tipo(entrada.parsed.tipo_falta)

C5_Witness ==
    /\ Llamada("leer_texto_pdf")
    /\ entrada.pdf.abre /\ Len(entrada.pdf.pages) = 2
    /\ entrada.pdf.pages[1].k = "text" /\ Contains(entrada.pdf.pages[1].text, "JUAN")
    /\ entrada.pdf.pages[2].k = "raise"
    /\ Resultado = ""

\* the entries after the base list
Adicionales(parsed, ret) ==
    SubSeq(ret, Len(preguntas_base_por_tipo(parsed.tipo_falta)) + 1, Len(ret))
HayPregunta(text) ==
    \E i \in 1..Len(Candidatas(Strip(text))) : EndsWith(Candidatas(Strip(text))[i], "?")

\* C9: with a credential and a response that has text, the result is the
\* base list followed by between 1 and max_ai entries; each ends with '?'
\* or is the only entry and the placeholder; the placeholder appears exactly
\* when no candidate read from the response ends with '?' (in particular
\* when the response holds no '?').
C9_Adicionales ==
    (Llamada("generar_preguntas_gemini") /\ ~SinCredencial /\ ConClaves(entrada.parsed)
       /\ entrada.res.k = "text") =>
        /\ Resultado.exc = ""
        /\ Resultado.llm = 1
        /\ SubSeq(Resultado.ret, 1, Len(preguntas_base_por_tipo(entrada.parsed.tipo_falta)))
              = preguntas_base_por_tipo(entrada.parsed.tipo_falta)
        /\ Len(Adicionales(entrada.parsed, Resultado.ret)) \in 1..entrada.max_ai
        /\ \A i \in 1..Len(Adicionales(entrada.parsed, Resultado.ret)) :
              \/ EndsWith(Adicionales(entrada.parsed, Resultado.ret)[i], "?")
              \/ Adicionales(entrada.parsed, Resultado.ret)
                    = <<"(La IA no generó preguntas adicionales correctamente.)">>
        /\ Adicionales(entrada.parsed, Resultado.ret)
              = <<"(La IA no generó preguntas adicionales correctamente.)">>
              <=> ~HayPregunta(entrada.res.text)
        /\ ~Contains(entrada.res.text, "?") => ~HayPregunta(entrada.res.text)

C9_Witness ==
    /\ Llamada("generar_preguntas_gemini")
    /\ ~SinCredencial
    /\ entrada.parsed = RegistroUno
    /\ entrada.res.k = "text"
    /\ entrada.max_ai = 2
    /\ Len(SelectSeq(Candidatas(Strip(entrada.res.text)), TerminaEnPregunta)) = 3
    /\ Len(Resultado.ret) = Len(PreguntasCelular) + 2

(***************************************************************************)
(* Properties of generar_acta                                              *)
(***************************************************************************)
CamposActa == {"nombre", "fecha_citacion", "fecha_hecho", "detalle", "articulos"}

\* C6: for a record that has nombre, fecha_citacion, fecha_hecho, detalle
\* and articulos, and any list of questions, generar_acta raises nothing,
\* hands the record's values to the template and the written file's text
\* holds them unchanged.
C6_RoundTrip ==
    (Llamada("generar_acta") /\ CamposActa \subseteq DOMAIN entrada.parsed) =>
        /\ Resultado.exc = ""
        /\ \A c \in CamposActa :
              /\ Resultado.contexto[c] = entrada.parsed[c]
              /\ Resultado.archivo.texto[c] = entrada.parsed[c]


(***************************************************************************)
(* Properties of main() and of the app                                     *)
(***************************************************************************)
Rango(s) == {s[i] : i \in DOMAIN s}
Orden == <<"leer", "extraer", "preguntas", "acta">>
\* the stages the run has called, without the notices it printed
Llamadas == SelectSeq(etapas, LAMBDA e : e \in Rango(Orden))

\* C7: in every run of main() the stages called so far are an initial part
\* of read, extract, generate questions, write acta (so none runs twice and
\* none runs out of order), main() is about to call the stage that follows
\* the ones that have returned, at most one call of the language model has
\* been made and at most one file has been written, and a file is written
\* only by a run that called all four stages.
C7_Lineal ==
    entrada.fn = "main" =>
        /\ \E n \in 0..Len(Orden) : Llamadas = SubSeq(Orden, 1, n)
        /\ pc \in {"inicio", "leer"} => Llamadas = <<>>
        /\ \A n \in 2..Len(Orden) : pc = Orden[n] => Llamadas = SubSeq(Orden, 1, n - 1)
        /\ llm <= 1 /\ (llm = 1 => "preguntas" \in Rango(etapas))
        /\ Len(escritos) <= 1 /\ (escritos # <<>> => Llamadas = Orden)

\* a run over a folder of two files that called the model and wrote the acta
C7_Witness ==
    /\ entrada.fn = "main" /\ pc = "fin" /\ Len(carpeta) = 2
    /\ Llamadas = Orden /\ llm = 1 /\ Len(escritos) = 1

\* the file main() or the script is reading
Archivo == IF entrada.fn = "main" THEN carpeta[1] ELSE archivo_pdf

\* C8: in main() and in the app, once leer_texto_pdf has returned: if the
\* text has fewer than 50 characters the run reports it and stops, having
\* called none of extraer_datos_citacion, generar_preguntas_gemini and
\* generar_acta and having written no file; if it has 50 or more, no such
\* report is made and the run goes on to extraer_datos_citacion.
C8_TextoSuficiente ==
    "leer" \in Rango(etapas) =>
        /\ texto = leer_texto_pdf(Citaciones[Archivo])
        /\ IF Len(texto) < 50
           THEN /\ etapas = <<"leer", "sin_texto">>
                /\ datos = <<>> /\ llm = 0 /\ llamada_acta = <<>> /\ escritos = <<>>
                /\ entrada.fn = "main" => pc = "fin" /\ preguntas = <<>>
                /\ entrada.fn = "app" => visible = {}
           ELSE /\ "sin_texto" \notin Rango(etapas)
                /\ \/ pc = "extraer" /\ etapas = <<"leer">>
                   \/ Len(etapas) >= 2 /\ etapas[2] = "extraer"

\* the app reads a file of 49 characters while the session holds questions
C8_Witness ==
    /\ entrada.fn = "app" /\ Len(texto) = 49
    /\ "preguntas" \in DOMAIN session_state
    /\ etapas = <<"leer", "sin_texto">>

\* what C10 says of a state of the session
C10_Estado ==
    entrada.fn = "app" =>
        /\ "acta" \in Rango(etapas) =>
              /\ archivo_pdf # 0
              /\ Len(leer_texto_pdf(Citaciones[archivo_pdf])) >= 50
              /\ "preguntas" \in DOMAIN session_state
              /\ generadas
              /\ llamada_acta.parsed =
                    extraer_datos_citacion(leer_texto_pdf(Citaciones[archivo_pdf]))
              /\ llamada_acta.preguntas = session_state.preguntas
        /\ "preguntas" \in DOMAIN session_state => generadas
        /\ "preguntas" \in Rango(etapas) => evento = "generar"
\* what C10 says of a run of the script
C10_Paso ==
    ("preguntas" \notin DOMAIN session_state /\ "preguntas" \in DOMAIN session_state') =>
        evento' = "generar" /\ "preguntas" \in Rango(etapas')

\* C10: in a session of the app, generar_acta is called only in a run of
\* the script in which a file is uploaded, its text has at least 50
\* characters and st.session_state holds "preguntas"; that key appears only
\* in a run triggered by the button "Generar preguntas con IA", in which
\* generar_preguntas_gemini is called, so a call of generar_acta comes after
\* a call of generar_preguntas_gemini in the session; and the record passed
\* to generar_acta is extraer_datos_citacion of the text of the file that is
\* uploaded in that run.
C10_Sesion == []C10_Estado /\ [][C10_Paso]_vars

\* an acta for the third file with the questions generated for the first
C10_Witness ==
    /\ entrada.fn = "app" /\ evento = "acta" /\ "acta" \in Rango(etapas)
    /\ archivo_pdf = 3 /\ escritos # <<>>
    /\ session_state.preguntas[2] = PreguntasCelular[2]
====
